---- MODULE Spec2Model ----
(***************************************************************************)
(* QuizMaster: the session store of App.tsx, its localStorage mirror, the  *)
(* session lifecycle handlers and the two collaborator calls               *)
(* (generateQuiz, correctAndReviewQuiz).                                   *)
(*                                                                         *)
(* JavaScript values are modelled as follows.  An object is a function     *)
(* from the keys it HAS to their values (so `{...a, ...b}` is Merge and a   *)
(* missing key is really missing).  undefined, null and NaN are the tagged *)
(* records Undefined, Null and NaN; a string that may also be null or      *)
(* undefined is Str(s); a number that may also be NaN is Num(n); all other *)
(* strings, numbers, arrays and maps are TLA+ strings, integers, sequences *)
(* and functions.  The string `session-<t>` is SessionKey(t).  A question id given by the      *)
(* generator is a one-element tuple, a synthesised `q-<t>-<i>` is the      *)
(* tuple <<"q", t, i>>.                                                    *)
(***************************************************************************)
EXTENDS Integers, Sequences, FiniteSets, TLC

VARIABLES
    sessions,         \* useState: Record<string, DocumentSession>
    activeSessionId,  \* useState: string | null
    isLoaded,         \* useState: boolean
    phase,            \* "mounting": first commit, effects not yet run;
                      \* "loaded": load effect done, its re-render pending;
                      \* "ready": waiting for events
    storage,          \* localStorage[APP_STORAGE_KEY]
    clock,            \* Date.now()
    calls,            \* collaborator calls in flight (awaited promises)
    lastSave,         \* outcome of the latest localStorage.setItem of this process
    events,           \* number of budgeted events so far: a clock tick, an edit
                      \* of the configuration form, a setItem that throws, a
                      \* restart
    generations,      \* number of generateQuiz calls issued so far
    deleted           \* history: the keys removed by a confirmed
                      \* handleDeleteSession and not assigned by handleFileChange
                      \* since

vars == <<sessions, activeSessionId, isLoaded, phase, storage, clock, calls,
          lastSave, events, generations, deleted>>

----------------------------------------------------------------------------
(* Bounds of the model *)

MaxClock == 2
MaxCalls == 2
MaxEvents == 1
MaxGenerations == 2
MaxQuestions == 2
MaxOptions == 2

----------------------------------------------------------------------------
(* JavaScript values *)

Undefined == [undefined |-> TRUE]
Null == [null |-> TRUE]
NaN == [nan |-> TRUE]
Str(s) == [str |-> s]
Num(n) == [num |-> n]

\* JavaScript truthiness of a tagged value
Truthy(v) ==
    /\ v # Undefined
    /\ v # Null
    /\ v # NaN
    /\ v # Str("")
    /\ v # Num(0)

\* o.k : undefined when the object has no such key
Get(o, k) == IF k \in DOMAIN o THEN o[k] ELSE Undefined

\* { ...a, ...b }
Merge(a, b) ==
    [k \in (DOMAIN a) \cup (DOMAIN b) |-> IF k \in DOMAIN b THEN b[k] ELSE a[k]]

EmptyObject == <<>>

SessionKey(t) == [session |-> t]

Keys == {SessionKey(t) : t \in 1..(MaxClock + 1)}

----------------------------------------------------------------------------
(* JSON.stringify / JSON.parse of the session mapping *)

\* The keys of a DocumentSession that can hold undefined (types.ts: weakTopics?,
\* error?) and the key that holds a number that can be NaN.
OptionalKeys == {"weakTopics", "error"}
NumberKeys == {"numQuestions"}

\* JSON.stringify of one object: a key whose value is undefined is left out, and
\* NaN is written as null
JSONObject(o) ==
    [k \in {j \in DOMAIN o : ~(j \in OptionalKeys /\ o[j] = Undefined)} |->
        IF k \in NumberKeys /\ o[k] = NaN THEN Null ELSE o[k]]

\* Faulty variant of JSONStringify: only the active session is written (a delta)
JSONStringify_ActiveOnly(s) ==
    [k \in (DOMAIN s) \cap {activeSessionId} |-> JSONObject(s[k])]

\* JSON.stringify(sessions): the text, kept as the value it denotes
JSONStringify(s) == [k \in DOMAIN s |-> JSONObject(s[k])]

\* JSON.parse of a text written by JSONStringify
JSONParse(text) == [k \in DOMAIN text |-> text[k]]

NoRecord == [kind |-> "none", val |-> EmptyObject]
Corrupt == [kind |-> "corrupt", val |-> EmptyObject]
Stored(text) == [kind |-> "json", val |-> text]

----------------------------------------------------------------------------
(* The session store *)

CONFIGURING_QUIZ == "CONFIGURING_QUIZ"
GENERATING_QUIZ == "GENERATING_QUIZ"
TAKING_QUIZ == "TAKING_QUIZ"
SUBMITTING_QUIZ == "SUBMITTING_QUIZ"
REVIEWING_QUIZ == "REVIEWING_QUIZ"
ERROR == "ERROR"

QuizType == {"SINGLE", "MULTIPLE", "MIXED"}

\* const activeSession = activeSessionId ? sessions[activeSessionId] : null;
\* HasActiveSession is its truthiness
HasActiveSession == Truthy(activeSessionId) /\ activeSessionId \in DOMAIN sessions

activeSession == sessions[activeSessionId]

\* Faulty variant of UpdatedSessions: the update is applied to the mapping as it
\* was in the first render (the empty one), not to prev
UpdatedSessions_NotFromPrev(prev, id, updates, now) ==
    LET old == IF id \in DOMAIN prev THEN prev[id] ELSE EmptyObject
        new == Merge(Merge(old, updates), [lastAccessed |-> now])
    IN  [k \in {id} |-> new]

\* The functional update of updateActiveSession, for the activeSessionId of the
\* render whose closure calls it: { ...prev, [id]: { ...prev[id], ...updates,
\* lastAccessed: Date.now() } }.  prev[id] of a missing key is undefined and
\* spreads to nothing.
UpdatedSessions(prev, id, updates, now) ==
    LET old == IF id \in DOMAIN prev THEN prev[id] ELSE EmptyObject
        new == Merge(Merge(old, updates), [lastAccessed |-> now])
    IN  [k \in (DOMAIN prev) \cup {id} |-> IF k = id THEN new ELSE prev[k]]

\* updateActiveSession: nothing when the closure's activeSessionId is falsy
updateActiveSession(prev, id, updates, now) ==
    IF ~Truthy(id) THEN prev ELSE UpdatedSessions(prev, id, updates, now)

\* Faulty variant of SaveEffect: the `if (!isLoaded) return` is missing
SaveEffect_NoLoadGuard(s, loaded, ok, spent) ==
    IF ok
    THEN /\ storage' = Stored(JSONStringify(s))
         /\ lastSave' = "ok"
         /\ events' = events + spent
    ELSE /\ lastSave' = "failed"
         /\ events' = events + spent + 1
         /\ UNCHANGED storage

\* The save effect for the render whose state is (s, loaded): nothing before the
\* load, else localStorage.setItem of the whole mapping; a throw is swallowed.
\* `spent` is what the handler itself takes from the event budget.
SaveEffect(s, loaded, ok, spent) ==
    IF ~loaded
    THEN /\ events' = events + spent
         /\ UNCHANGED <<storage, lastSave>>
    ELSE IF ok
         THEN /\ storage' = Stored(JSONStringify(s))
              /\ lastSave' = "ok"
              /\ events' = events + spent
         ELSE /\ lastSave' = "failed"
              /\ events' = events + spent + 1
              /\ UNCHANGED storage

\* setItem succeeds or throws (storage quota)
SaveOutcomes(spent) == {TRUE} \cup {ok \in {FALSE} : events + spent < MaxEvents}

\* setSessions(s), the re-render and the save effect it triggers
Commit(s, spent) ==
    /\ sessions' = s
    /\ \E ok \in SaveOutcomes(spent) : SaveEffect(s, isLoaded, ok, spent)

----------------------------------------------------------------------------
(* Startup *)

Init ==
    /\ sessions = EmptyObject
    /\ activeSessionId = Null
    /\ isLoaded = FALSE
    /\ phase = "mounting"
    /\ storage \in {NoRecord, Corrupt}
    /\ clock = 1
    /\ calls = <<>>
    /\ lastSave = "none"
    /\ events = 0
    /\ generations = 0
    /\ deleted = {}

\* The load effect: what setSessions receives, or the state kept when there is no
\* record (getItem gives null) or JSON.parse throws
LoadedSessions(st, s) ==
    IF st.kind = "json" THEN JSONParse(st.val) ELSE s

\* Faulty variant of Mount: setIsLoaded(true) is inside the try block
Mount_FlagInsideTry ==
    /\ phase = "mounting"
    /\ phase' = "loaded"
    /\ sessions' = LoadedSessions(storage, sessions)
    /\ isLoaded' = (storage.kind # "corrupt")
    /\ SaveEffect(sessions, isLoaded, TRUE, 0)
    /\ UNCHANGED <<activeSessionId, clock, calls, generations, deleted>>

\* The first commit: the load effect, then the save effect of the same render
\* (isLoaded is still false in its closure)
Mount ==
    /\ phase = "mounting"
    /\ phase' = "loaded"
    /\ sessions' = LoadedSessions(storage, sessions)
    /\ isLoaded' = TRUE
    /\ SaveEffect(sessions, isLoaded, TRUE, 0)
    /\ UNCHANGED <<activeSessionId, clock, calls, generations, deleted>>

\* The render after the load effect's setSessions/setIsLoaded: the save effect
\* runs again, now with isLoaded true
Rerender ==
    /\ phase = "loaded"
    /\ phase' = "ready"
    /\ \E ok \in SaveOutcomes(0) : SaveEffect(sessions, isLoaded, ok, 0)
    /\ UNCHANGED <<sessions, activeSessionId, isLoaded, clock, calls,
                   generations, deleted>>

\* The user can act once the effects of the load have been flushed
Ready == phase = "ready" /\ isLoaded

\* Date.now() moves on
Tick ==
    /\ clock < MaxClock
    /\ events < MaxEvents
    /\ clock' = clock + 1
    /\ events' = events + 1
    /\ UNCHANGED <<sessions, activeSessionId, isLoaded, phase, storage, calls,
                   lastSave, generations, deleted>>

----------------------------------------------------------------------------
(* Document selection view *)

\* What the user can see: the document list, or the view of the active session
ListView == Ready /\ ~Truthy(activeSessionId)

ViewIs(st) == Ready /\ HasActiveSession /\ activeSession.state = st

FileContents == {"", "text"}

\* newSession of handleFileChange
NewSession(newId, text, now) ==
    [id |-> newId,
     fileName |-> "doc1",
     content |-> text,
     quizType |-> "MIXED",
     numQuestions |-> Num(5),
     questions |-> <<>>,
     userAnswers |-> EmptyObject,
     correction |-> Null,
     weakTopics |-> Undefined,
     lastAccessed |-> now,
     state |-> CONFIGURING_QUIZ]

\* setSessions(prev => ({ ...prev, [newId]: newSession }))
AddSession(prev, newId, session) ==
    [k \in (DOMAIN prev) \cup {newId} |-> IF k = newId THEN session ELSE prev[k]]

\* handleFileChange: the file is read, or file.text() rejects and only an alert
\* is shown
HandleFileChange(text, readable) ==
    /\ ListView
    /\ LET newId == SessionKey(clock) IN
        IF readable
        THEN /\ Commit(AddSession(sessions, newId,
                                  NewSession(newId, text, clock)), 0)
             /\ activeSessionId' = newId
             /\ deleted' = deleted \ {newId}
        ELSE UNCHANGED <<sessions, activeSessionId, storage, lastSave, events,
                         deleted>>
    /\ UNCHANGED <<isLoaded, phase, clock, calls, generations>>

\* onClick of a list entry: setActiveSessionId(session.id)
SelectSession(k) ==
    /\ ListView
    /\ k \in DOMAIN sessions
    /\ activeSessionId' = Get(sessions[k], "id")
    /\ UNCHANGED <<sessions, isLoaded, phase, storage, clock, calls, lastSave,
                   events, generations, deleted>>

\* Faulty variant of RemoveSession: the copy is returned without the delete
RemoveSession_Keep(prev, sessionId) == prev

\* delete newSessions[sessionId]
RemoveSession(prev, sessionId) ==
    [k \in (DOMAIN prev) \ {sessionId} |-> prev[k]]

\* if (activeSessionId === sessionId) setActiveSessionId(null)
ActiveAfterDelete(active, sessionId) ==
    IF active = sessionId THEN Null ELSE active

\* handleDeleteSession(sessionId) with the answer to window.confirm.  `after`
\* is the setActiveSessionId(null) that resetSession issues right after the call.
HandleDeleteSession(sessionId, confirmed, after) ==
    /\ IF confirmed
       THEN /\ Commit(RemoveSession(sessions, sessionId), 0)
            /\ deleted' = deleted \cup ({sessionId} \cap DOMAIN sessions)
       ELSE UNCHANGED <<sessions, storage, lastSave, events, deleted>>
    /\ activeSessionId' =
          IF after THEN Null
          ELSE IF confirmed THEN ActiveAfterDelete(activeSessionId, sessionId)
          ELSE activeSessionId

\* The delete button of a list entry: handleDeleteSession(session.id)
DeleteButton(k, confirmed) ==
    /\ ListView
    /\ k \in DOMAIN sessions
    /\ HandleDeleteSession(Get(sessions[k], "id"), confirmed, FALSE)
    /\ UNCHANGED <<isLoaded, phase, clock, calls, generations>>

\* The header's back button: setActiveSessionId(null)
Back ==
    /\ Truthy(activeSessionId)
    /\ activeSessionId' = Null
    /\ UNCHANGED <<sessions, isLoaded, phase, storage, clock, calls, lastSave,
                   events, generations, deleted>>

----------------------------------------------------------------------------
(* Configuration view *)

\* resetSession(isNewFile)
ResetSession(isNewFile, confirmed) ==
    /\ Truthy(activeSessionId)
    /\ IF isNewFile
       THEN HandleDeleteSession(activeSessionId, confirmed, TRUE)
       ELSE /\ Commit(updateActiveSession(sessions, activeSessionId,
                        [state |-> CONFIGURING_QUIZ, questions |-> <<>>,
                         userAnswers |-> EmptyObject, correction |-> Null,
                         error |-> Null, weakTopics |-> Undefined], clock), 0)
            /\ UNCHANGED <<activeSessionId, deleted>>

\* "Changer de fichier": resetSession(true)
ChangeFile(confirmed) ==
    /\ ViewIs(CONFIGURING_QUIZ)
    /\ ResetSession(TRUE, confirmed)
    /\ UNCHANGED <<isLoaded, phase, clock, calls, generations>>

Whitespace == {" "}
DigitValue ==
    [c \in {"0", "1", "2", "3", "4", "5", "6", "7", "8", "9"} |->
        CASE c = "0" -> 0 [] c = "1" -> 1 [] c = "2" -> 2 [] c = "3" -> 3
          [] c = "4" -> 4 [] c = "5" -> 5 [] c = "6" -> 6 [] c = "7" -> 7
          [] c = "8" -> 8 [] c = "9" -> 9]

RECURSIVE SkipWhitespace(_)
SkipWhitespace(text) ==
    IF text # <<>> /\ Head(text) \in Whitespace
    THEN SkipWhitespace(Tail(text))
    ELSE text

\* The longest prefix of decimal digits, read as a number; <<>> when there is none
RECURSIVE ReadDigits(_, _, _)
ReadDigits(text, any, acc) ==
    IF text # <<>> /\ Head(text) \in DOMAIN DigitValue
    THEN ReadDigits(Tail(text), TRUE, 10 * acc + DigitValue[Head(text)])
    ELSE IF any THEN <<acc>> ELSE <<>>

\* parseInt(text, 10): leading whitespace, an optional sign, then digits up to
\* the first other character; NaN when there is no digit
ParseInt(text) ==
    LET t == SkipWhitespace(text)
        signed == t # <<>> /\ Head(t) \in {"+", "-"}
        digits == ReadDigits(IF signed THEN Tail(t) ELSE t, FALSE, 0)
    IN  IF digits = <<>> THEN NaN
        ELSE IF signed /\ Head(t) = "-" THEN Num(0 - digits[1])
        ELSE Num(digits[1])

\* Math.max(1, v): NaN when v is NaN
MathMax1(v) ==
    IF v = NaN THEN NaN ELSE IF v.num > 1 THEN v ELSE Num(1)

\* e.target.value of the number input: "" when the field does not hold a number
NumQuestionsTexts == {<<>>, <<"0">>, <<"-", "2">>, <<"1", "2">>}

\* onChange of the question-count field
SetNumQuestions(text) ==
    /\ ViewIs(CONFIGURING_QUIZ)
    /\ events < MaxEvents
    /\ Commit(updateActiveSession(sessions, activeSessionId,
                [numQuestions |-> MathMax1(ParseInt(text))], clock), 1)
    /\ UNCHANGED <<activeSessionId, isLoaded, phase, clock, calls, generations,
                   deleted>>

\* Faulty variant of SetQuizType: the buttons are shown in every view of the
\* active session
SetQuizType_AnyView(type) ==
    /\ Ready
    /\ HasActiveSession
    /\ events < MaxEvents
    /\ Commit(updateActiveSession(sessions, activeSessionId,
                [quizType |-> type], clock), 1)
    /\ UNCHANGED <<activeSessionId, isLoaded, phase, clock, calls, generations,
                   deleted>>

\* onClick of a quiz-type button
SetQuizType(type) ==
    /\ ViewIs(CONFIGURING_QUIZ)
    /\ events < MaxEvents
    /\ Commit(updateActiveSession(sessions, activeSessionId,
                [quizType |-> type], clock), 1)
    /\ UNCHANGED <<activeSessionId, isLoaded, phase, clock, calls, generations,
                   deleted>>

----------------------------------------------------------------------------
(* Generation *)

\* handleGenerateQuiz up to its await.  The button is disabled when the content
\* is empty.
HandleGenerateQuiz ==
    /\ ViewIs(CONFIGURING_QUIZ)
    /\ activeSession.content # ""
    /\ Len(calls) < MaxCalls
    /\ generations < MaxGenerations
    /\ generations' = generations + 1
    /\ Commit(updateActiveSession(sessions, activeSessionId,
                [state |-> GENERATING_QUIZ, error |-> Null], clock), 0)
    /\ calls' = Append(calls,
                  [kind |-> "generate", sid |-> activeSessionId,
                   content |-> activeSession.content,
                   quizType |-> activeSession.quizType,
                   numQuestions |-> activeSession.numQuestions,
                   weakTopics |-> Get(activeSession, "weakTopics")])
    /\ UNCHANGED <<activeSessionId, isLoaded, phase, clock, deleted>>

Option(text, isCorrect) == [text |-> text, isCorrect |-> isCorrect]

\* Items the generator can answer with: a single-choice and a multiple-choice
\* question, and an item with no id and no option
ItemSingle ==
    [id |-> <<"q1">>, questionText |-> "Q1", type |-> "single",
     options |-> <<Option("a", TRUE), Option("b", FALSE)>>]
ItemMultiple ==
    [id |-> <<"q2">>, questionText |-> "Q2", type |-> "multiple",
     options |-> <<Option("a", TRUE)>>]
ItemNoId ==
    [questionText |-> "Q3", type |-> "single", options |-> <<>>]

\* What ai.models.generateContent can answer: a bare array, an object whose first
\* key holds the array or something else, a text that is no JSON, or a rejection
GeneratorReplies ==
    {[kind |-> "array", items |-> <<ItemSingle, ItemMultiple>>],
     [kind |-> "envelope", items |-> <<ItemNoId>>],
     [kind |-> "array", items |-> <<>>],
     [kind |-> "object", items |-> <<>>],
     [kind |-> "invalid", items |-> <<>>]}

\* The messages of the thrown errors (written without their accents)
MsgNoQuestions ==
    "L'API n'a retourne aucune question. Veuillez verifier le contenu fourni."
MsgGenerateFailed ==
    "Impossible de generer le quiz. Veuillez verifier le contenu fourni et reessayer."
MsgCorrectFailed ==
    "Impossible de corriger le quiz. Une erreur s'est produite."

\* generateQuiz: the parsed array (bare or the first value of an envelope), each
\* item given an id if it has none; any throw becomes MsgGenerateFailed
GenerateQuiz(reply, now) ==
    IF reply.kind \in {"array", "envelope"}
    THEN [ok |-> TRUE,
          questions |->
              [i \in 1..Len(reply.items) |->
                  Merge(reply.items[i],
                        [id |-> IF "id" \in DOMAIN reply.items[i]
                                THEN reply.items[i].id
                                ELSE <<"q", now, i - 1>>])]]
    ELSE [ok |-> FALSE, message |-> MsgGenerateFailed]

\* Faulty variant of GenerateUpdates: userAnswers is not reset with the questions
GenerateUpdates_KeepAnswers(result) ==
    IF result.ok /\ Len(result.questions) = 0
    THEN [error |-> Str(MsgNoQuestions), state |-> ERROR]
    ELSE IF result.ok
    THEN [questions |-> result.questions, correction |-> Null,
          state |-> TAKING_QUIZ]
    ELSE [error |-> Str(result.message), state |-> ERROR]

\* The updates handleGenerateQuiz applies once generateQuiz has settled
GenerateUpdates(result) ==
    IF result.ok /\ Len(result.questions) = 0
    THEN [error |-> Str(MsgNoQuestions), state |-> ERROR]
    ELSE IF result.ok
    THEN [questions |-> result.questions, userAnswers |-> EmptyObject,
          correction |-> Null, state |-> TAKING_QUIZ]
    ELSE [error |-> Str(result.message), state |-> ERROR]

RemoveAt(seq, i) == [j \in 1..(Len(seq) - 1) |-> IF j < i THEN seq[j] ELSE seq[j + 1]]

\* The rest of handleGenerateQuiz: runs when the awaited generateQuiz settles,
\* with the updateActiveSession of the render that started it
GenerateReturn(i, reply) ==
    /\ i \in 1..Len(calls)
    /\ calls[i].kind = "generate"
    /\ Commit(updateActiveSession(sessions, calls[i].sid,
                GenerateUpdates(GenerateQuiz(reply, clock)), clock), 0)
    /\ calls' = RemoveAt(calls, i)
    /\ UNCHANGED <<activeSessionId, isLoaded, phase, clock, generations,
                   deleted>>

----------------------------------------------------------------------------
(* Taking the quiz *)

Includes(seq, x) == \E j \in 1..Len(seq) : seq[j] = x

Filter(seq, x) == SelectSeq(seq, LAMBDA a : a # x)

\* Faulty variant of NewAnswers: a selected option is not removed
NewAnswers_AlwaysAppend(currentAnswers, optionText, isMultiple) ==
    IF isMultiple THEN Append(currentAnswers, optionText) ELSE <<optionText>>

\* Faulty variant of NewAnswers: isMultiple is ignored
NewAnswers_AlwaysToggle(currentAnswers, optionText, isMultiple) ==
    IF Includes(currentAnswers, optionText)
    THEN Filter(currentAnswers, optionText)
    ELSE Append(currentAnswers, optionText)

\* newAnswers of handleAnswerChange
NewAnswers(currentAnswers, optionText, isMultiple) ==
    IF isMultiple
    THEN IF Includes(currentAnswers, optionText)
         THEN Filter(currentAnswers, optionText)
         ELSE Append(currentAnswers, optionText)
    ELSE <<optionText>>

\* activeSession.userAnswers[questionId] || []
CurrentAnswers(userAnswers, questionId) ==
    IF questionId \in DOMAIN userAnswers THEN userAnswers[questionId] ELSE <<>>

\* { ...activeSession.userAnswers, [questionId]: newAnswers }
RecordAnswer(userAnswers, questionId, optionText, isMultiple) ==
    [q \in (DOMAIN userAnswers) \cup {questionId} |->
        IF q = questionId
        THEN NewAnswers(CurrentAnswers(userAnswers, questionId), optionText, isMultiple)
        ELSE userAnswers[q]]

\* onChange of option o of question q in renderQuiz
HandleAnswerChange(q, o) ==
    /\ ViewIs(TAKING_QUIZ)
    /\ q \in 1..Len(activeSession.questions)
    /\ o \in 1..Len(activeSession.questions[q].options)
    /\ LET question == activeSession.questions[q] IN
        Commit(updateActiveSession(sessions, activeSessionId,
                 [userAnswers |->
                     RecordAnswer(activeSession.userAnswers, question.id,
                                  question.options[o].text,
                                  question.type = "multiple")], clock), 0)
    /\ UNCHANGED <<activeSessionId, isLoaded, phase, clock, calls, generations,
                   deleted>>

\* Faulty variant of AllAnswered: the `.length > 0` test is missing
AllAnswered_KeyOnly(questions, userAnswers) ==
    \A j \in 1..Len(questions) : questions[j].id \in DOMAIN userAnswers

\* The every(...) of isQuizAnswered
AllAnswered(questions, userAnswers) ==
    \A j \in 1..Len(questions) :
        /\ questions[j].id \in DOMAIN userAnswers
        /\ Len(userAnswers[questions[j].id]) > 0

\* isQuizAnswered
isQuizAnswered ==
    IF ~HasActiveSession \/ Len(activeSession.questions) = 0
    THEN FALSE
    ELSE AllAnswered(activeSession.questions, activeSession.userAnswers)

\* if (!isQuizAnswered || !activeSession) return;
SubmitAllowed == isQuizAnswered /\ HasActiveSession

\* handleSubmitQuiz up to its await
HandleSubmitQuiz ==
    /\ ViewIs(TAKING_QUIZ)
    /\ IF SubmitAllowed
       THEN /\ Len(calls) < MaxCalls
            /\ Commit(updateActiveSession(sessions, activeSessionId,
                        [state |-> SUBMITTING_QUIZ, error |-> Null], clock), 0)
            /\ calls' = Append(calls,
                          [kind |-> "grade", sid |-> activeSessionId,
                           questions |-> activeSession.questions,
                           userAnswers |-> activeSession.userAnswers])
       ELSE UNCHANGED <<sessions, storage, lastSave, events, calls>>
    /\ UNCHANGED <<activeSessionId, isLoaded, phase, clock, generations,
                   deleted>>

\* What correctAndReviewQuiz can resolve to, or a rejection
GraderReplies ==
    {[ok |-> TRUE,
      result |-> [results |-> <<[isCorrect |-> TRUE], [isCorrect |-> FALSE]>>,
                  weakTopics |-> "Topic X"]],
     [ok |-> TRUE,
      result |-> [results |-> <<[isCorrect |-> TRUE]>>, weakTopics |-> ""]],
     [ok |-> FALSE, message |-> MsgCorrectFailed]}

\* Faulty variant of SubmitUpdates: a failed grading drops the answers
SubmitUpdates_DropAnswers(reply) ==
    IF reply.ok
    THEN [correction |-> reply.result, weakTopics |-> Str(reply.result.weakTopics),
          state |-> REVIEWING_QUIZ]
    ELSE [error |-> Str(reply.message), state |-> ERROR,
          userAnswers |-> EmptyObject]

\* The updates handleSubmitQuiz applies once correctAndReviewQuiz has settled
SubmitUpdates(reply) ==
    IF reply.ok
    THEN [correction |-> reply.result, weakTopics |-> Str(reply.result.weakTopics),
          state |-> REVIEWING_QUIZ]
    ELSE [error |-> Str(reply.message), state |-> ERROR]

\* The rest of handleSubmitQuiz
SubmitReturn(i, reply) ==
    /\ i \in 1..Len(calls)
    /\ calls[i].kind = "grade"
    /\ Commit(updateActiveSession(sessions, calls[i].sid, SubmitUpdates(reply),
                                  clock), 0)
    /\ calls' = RemoveAt(calls, i)
    /\ UNCHANGED <<activeSessionId, isLoaded, phase, clock, generations,
                   deleted>>

----------------------------------------------------------------------------
(* Review and error views *)

\* renderReview shows nothing without a correction
ReviewShown == ViewIs(REVIEWING_QUIZ) /\ activeSession.correction # Null

\* "Nouveau Quiz": resetSession(true)
NewQuiz(confirmed) ==
    /\ ReviewShown
    /\ ResetSession(TRUE, confirmed)
    /\ UNCHANGED <<isLoaded, phase, clock, calls, generations>>

\* Faulty variant of ImproveWeakTopics: the weak topics are cleared as well
ImproveWeakTopics_ClearsTopics ==
    /\ ReviewShown
    /\ activeSession.correction.weakTopics # ""
    /\ Commit(updateActiveSession(sessions, activeSessionId,
                [state |-> CONFIGURING_QUIZ, questions |-> <<>>,
                 userAnswers |-> EmptyObject, correction |-> Null,
                 error |-> Null, weakTopics |-> Undefined], clock), 0)
    /\ UNCHANGED <<activeSessionId, isLoaded, phase, clock, calls, generations,
                   deleted>>

\* "Ameliorer mes points faibles", shown when correction.weakTopics is truthy
ImproveWeakTopics ==
    /\ ReviewShown
    /\ activeSession.correction.weakTopics # ""
    /\ Commit(updateActiveSession(sessions, activeSessionId,
                [state |-> CONFIGURING_QUIZ, questions |-> <<>>,
                 userAnswers |-> EmptyObject, correction |-> Null,
                 error |-> Null], clock), 0)
    /\ UNCHANGED <<activeSessionId, isLoaded, phase, clock, calls, generations,
                   deleted>>

\* "Recommencer" of renderError
AcknowledgeError ==
    /\ ViewIs(ERROR)
    /\ Commit(updateActiveSession(sessions, activeSessionId,
                [state |-> CONFIGURING_QUIZ, error |-> Null], clock), 0)
    /\ UNCHANGED <<activeSessionId, isLoaded, phase, clock, calls, generations,
                   deleted>>

----------------------------------------------------------------------------
(* The page is closed or reloaded: the React state and the awaited calls are
   gone, localStorage stays *)

Restart ==
    /\ events < MaxEvents
    /\ events' = events + 1
    /\ sessions' = EmptyObject
    /\ activeSessionId' = Null
    /\ isLoaded' = FALSE
    /\ phase' = "mounting"
    /\ calls' = <<>>
    /\ lastSave' = "none"
    /\ UNCHANGED <<storage, clock, generations, deleted>>

----------------------------------------------------------------------------

Next ==
    \/ Mount
    \/ Rerender
    \/ Tick
    \/ \E text \in FileContents, readable \in BOOLEAN : HandleFileChange(text, readable)
    \/ \E k \in Keys : SelectSession(k)
    \/ \E k \in Keys, confirmed \in BOOLEAN : DeleteButton(k, confirmed)
    \/ Back
    \/ \E confirmed \in BOOLEAN : ChangeFile(confirmed)
    \/ \E text \in NumQuestionsTexts : SetNumQuestions(text)
    \/ \E type \in QuizType : SetQuizType(type)
    \/ HandleGenerateQuiz
    \/ \E i \in 1..MaxCalls, reply \in GeneratorReplies : GenerateReturn(i, reply)
    \/ \E q \in 1..MaxQuestions, o \in 1..MaxOptions : HandleAnswerChange(q, o)
    \/ HandleSubmitQuiz
    \/ \E i \in 1..MaxCalls, reply \in GraderReplies : SubmitReturn(i, reply)
    \/ \E confirmed \in BOOLEAN : NewQuiz(confirmed)
    \/ ImproveWeakTopics
    \/ AcknowledgeError
    \/ Restart

Spec == Init /\ [][Next]_vars

----------------------------------------------------------------------------
(* Every collaborator call that has been issued returns or fails in the end,
   unless the process is gone before *)

CallsReturn ==
    /\ WF_vars(\E i \in 1..MaxCalls, reply \in GeneratorReplies :
                  GenerateReturn(i, reply))
    /\ WF_vars(\E i \in 1..MaxCalls, reply \in GraderReplies :
                  SubmitReturn(i, reply))

SpecCallsReturn == Spec /\ CallsReturn

----------------------------------------------------------------------------
(* The application started on a durable record that cannot be parsed *)

InitCorrupt == Init /\ storage = Corrupt

SpecCorrupt == InitCorrupt /\ [][Next]_vars

----------------------------------------------------------------------------
(* handleAnswerChange on its own: a session in TAKING_QUIZ whose answers are
   drawn from every map the handler can have built *)

MaxSelected == 3

ItemThree ==
    [id |-> <<"q3">>, questionText |-> "Q3", type |-> "multiple",
     options |-> <<Option("a", TRUE), Option("b", TRUE), Option("c", FALSE)>>]

OptionTexts(question) ==
    {question.options[o].text : o \in 1..Len(question.options)}

\* The lists of distinct option texts of a question, up to MaxSelected long
Selections(question) ==
    {l \in UNION {[1..n -> OptionTexts(question)] : n \in 0..MaxSelected} :
        \A i, j \in 1..Len(l) : i # j => l[i] # l[j]}

\* userAnswers of a quiz made of ItemSingle and ItemThree: a question has no
\* entry until it is answered, a single-choice one then holds one text
AnswerMaps ==
    {[q \in D |-> IF q = ItemSingle.id THEN s ELSE m] :
        D \in SUBSET {ItemSingle.id, ItemThree.id},
        s \in {l \in Selections(ItemSingle) : Len(l) = 1},
        m \in Selections(ItemThree)}

\* The quiz is being taken, in a process whose save at startup has failed
InitAnswers ==
    /\ clock \in 1..MaxClock
    /\ \E ua \in AnswerMaps :
          sessions = [k \in {SessionKey(1)} |->
                        Merge(NewSession(SessionKey(1), "text", clock),
                              [questions |-> <<ItemSingle, ItemThree>>,
                               userAnswers |-> ua,
                               state |-> TAKING_QUIZ])]
    /\ activeSessionId = SessionKey(1)
    /\ isLoaded = TRUE
    /\ phase = "ready"
    /\ storage = NoRecord
    /\ calls = <<>>
    /\ lastSave = "failed"
    /\ events = MaxEvents
    /\ generations = 1
    /\ deleted = {}

NextAnswers ==
    \E q \in 1..MaxQuestions, o \in 1..MaxSelected : HandleAnswerChange(q, o)

SpecAnswers == InitAnswers /\ [][NextAnswers]_vars

----------------------------------------------------------------------------
(* Properties *)

\* C1: no write to durable storage happens before the startup load has run: every
\* step that changes the durable record starts in a state where isLoaded holds,
\* so the record is never replaced by the initial empty store.
C1_NoSaveBeforeLoad == [][storage' # storage => isLoaded]_vars

\* A non-empty record has been loaded after a restart and is still intact, the
\* first save of this process being still to come.
C1_LoadedBeforeFirstSave ==
    /\ phase = "loaded"
    /\ isLoaded
    /\ lastSave = "none"
    /\ DOMAIN sessions # {}
    /\ storage = Stored(JSONStringify(sessions))

\* C2: deletion is irreversible: in every later state no record exists in the
\* store under the key of a session that was deleted (a key that handleFileChange
\* has assigned again since is C4's matter and is not counted here).
C2_DeletionIrreversible == \A k \in deleted : k \notin DOMAIN sessions

\* The identifier a delete button hands to handleDeleteSession
ListedId(k) == Get(sessions[k], "id")

\* What a confirmed handleDeleteSession(id) must do to the store and the selection
DeleteEffect(id) ==
    /\ id \notin DOMAIN sessions'
    /\ DOMAIN sessions' = (DOMAIN sessions) \ {id}
    /\ \A o \in (DOMAIN sessions) \ {id} : sessions'[o] = sessions[o]
    /\ activeSessionId = id => activeSessionId' = Null

\* C3: a confirmed delete of id (the list's delete button, or the reset of the
\* active session with "new file") removes id from the store, leaves no active
\* session if id was active, and leaves every other session unchanged.
C3_DeleteRemovesSession ==
    [][/\ \A k \in DOMAIN sessions :
             DeleteButton(k, TRUE) => DeleteEffect(ListedId(k))
       /\ (ChangeFile(TRUE) \/ NewQuiz(TRUE)) => DeleteEffect(activeSessionId)]_vars

\* A session has been deleted, it is gone, another one is still stored and no
\* session is active.
C3_DeletedOneOfTwo ==
    /\ deleted # {}
    /\ \A k \in deleted : k \notin DOMAIN sessions
    /\ DOMAIN sessions # {}
    /\ activeSessionId = Null

\* C4: an identifier assigned by handleFileChange is different from every
\* identifier deleted earlier.
C4_NoReuseAfterDeletion ==
    [][\A text \in FileContents :
          HandleFileChange(text, TRUE) => SessionKey(clock) \notin deleted]_vars

\* C5: handleFileChange never assigns an identifier that is already in the store:
\* the store grows by exactly one record and every existing record is kept.
C5_CreateAddsOneRecord ==
    [][\A text \in FileContents :
          HandleFileChange(text, TRUE) =>
              /\ SessionKey(clock) \notin DOMAIN sessions
              /\ Cardinality(DOMAIN sessions') = Cardinality(DOMAIN sessions) + 1
              /\ \A o \in DOMAIN sessions :
                    o \in DOMAIN sessions' /\ sessions'[o] = sessions[o]]_vars

\* C6: every stored session has a numQuestions that is an integer >= 1.
C6_NumQuestionsAtLeastOne ==
    \A k \in DOMAIN sessions :
        /\ "numQuestions" \in DOMAIN sessions[k]
        /\ sessions[k].numQuestions \notin {NaN, Null}
        /\ sessions[k].numQuestions.num >= 1

\* Every question of the session has an entry in userAnswers that is not empty
EveryQuestionAnswered(session) ==
    \A j \in 1..Len(session.questions) :
        /\ session.questions[j].id \in DOMAIN session.userAnswers
        /\ session.userAnswers[session.questions[j].id] # <<>>

\* C7: a session goes from TAKING_QUIZ to SUBMITTING_QUIZ, and a grading call is
\* issued, only when every question has a non-empty answer; a submit in any other
\* situation changes neither the store, the durable record nor the calls.
C7_SubmitGuard ==
    [][/\ \A k \in (DOMAIN sessions) \cap (DOMAIN sessions') :
             (sessions[k].state = TAKING_QUIZ /\ sessions'[k].state = SUBMITTING_QUIZ)
                 => EveryQuestionAnswered(sessions[k])
       /\ (Len(calls') > Len(calls) /\ calls'[Len(calls')].kind = "grade")
             => /\ sessions[calls'[Len(calls')].sid].state = TAKING_QUIZ
                /\ EveryQuestionAnswered(sessions[calls'[Len(calls')].sid])
       /\ (HandleSubmitQuiz /\ ~EveryQuestionAnswered(activeSession))
             => UNCHANGED <<sessions, storage, calls, activeSessionId>>]_vars

\* A grading call is in flight for a session that is in SUBMITTING_QUIZ with all
\* its questions answered.
C7_GradingInFlight ==
    \E i \in 1..Len(calls) :
        /\ calls[i].kind = "grade"
        /\ calls[i].sid \in DOMAIN sessions
        /\ sessions[calls[i].sid].state = SUBMITTING_QUIZ
        /\ EveryQuestionAnswered(sessions[calls[i].sid])

\* C8: in TAKING_QUIZ every question has at least one option and at least one
\* option that is correct.
C8_TakingQuizHasCorrectOption ==
    \A k \in DOMAIN sessions :
        sessions[k].state = TAKING_QUIZ =>
            \A j \in 1..Len(sessions[k].questions) :
                LET options == sessions[k].questions[j].options IN
                /\ options # <<>>
                /\ \E o \in 1..Len(options) : options[o].isCorrect

\* C9: at any time each session has at most one collaborator call (generation or
\* grading) in flight: no two calls in flight were issued for the same session.
C9_OneCallPerSession ==
    \A i, j \in 1..Len(calls) : i # j => calls[i].sid # calls[j].sid

\* C10: once the load is done and the latest save has succeeded, the durable
\* record holds exactly the keys of the in-memory mapping, each with the JSON form
\* of its whole session.
C10_DurableIsWholeStore ==
    (phase = "ready" /\ lastSave = "ok") =>
        /\ storage.kind = "json"
        /\ DOMAIN storage.val = DOMAIN sessions
        /\ \A k \in DOMAIN sessions : storage.val[k] = JSONObject(sessions[k])

\* Two sessions are stored, one of them with answers recorded, and the durable
\* record holds both.
C10_TwoSessionsSaved ==
    /\ phase = "ready"
    /\ lastSave = "ok"
    /\ Cardinality(DOMAIN sessions) = 2
    /\ DOMAIN storage.val = DOMAIN sessions
    /\ \E k \in DOMAIN sessions :
          sessions[k].state = TAKING_QUIZ /\ DOMAIN sessions[k].userAnswers # {}

\* The object has a value other than undefined in field f
Present(o, f) == f \in DOMAIN o /\ ~(f \in OptionalKeys /\ o[f] = Undefined)

\* a.f === b.f, a missing field reading as undefined
SameField(a, b, f) ==
    IF Present(a, f) /\ Present(b, f)
    THEN a[f] = b[f]
    ELSE Present(a, f) = Present(b, f)

\* The fields of a DocumentSession
DocumentSessionFields ==
    {"id", "fileName", "content", "quizType", "numQuestions", "questions",
     "userAnswers", "correction", "weakTopics", "error", "lastAccessed", "state"}

\* The two stores have the same keys and, for each key, the same value in every
\* field (a field that is missing reads as undefined)
SameStore(a, b) ==
    /\ DOMAIN a = DOMAIN b
    /\ \A k \in DOMAIN a :
          \A f \in DocumentSessionFields : SameField(a[k], b[k], f)

\* C11: round trip across a restart: whenever the store has just been saved with
\* success, what the load effect of a new process reads from the durable record
\* has the same session identifiers and the same value in every field of every
\* session; and a process that has not finished its startup has no active session.
C11_RoundTrip ==
    /\ (phase = "ready" /\ lastSave = "ok") =>
           SameStore(LoadedSessions(storage, EmptyObject), sessions)
    /\ phase # "ready" => activeSessionId = Null

\* The set of the elements of a list
ToSet(seq) == {seq[i] : i \in 1..Len(seq)}

\* C12: for every answer list of a question and every option text, selected or
\* not, recordAnswer with isMultiple = true applied twice with that text gives
\* the set of selected options it started from.
C12_ToggleTwiceSameSet ==
    \A k \in DOMAIN sessions :
        LET ua == sessions[k].userAnswers IN
        \A j \in 1..Len(sessions[k].questions) :
            LET q == sessions[k].questions[j] IN
            \A text \in OptionTexts(q) :
                LET once == RecordAnswer(ua, q.id, text, TRUE)
                    twice == RecordAnswer(once, q.id, text, TRUE)
                IN  ToSet(twice[q.id]) = ToSet(CurrentAnswers(ua, q.id))

\* An answer has been recorded and saved, and two options are selected: toggling
\* the first of them twice gives the same set in another order.
C12_ReorderedBySecondToggle ==
    /\ lastSave = "ok"
    /\ \E k \in DOMAIN sessions :
          LET l == CurrentAnswers(sessions[k].userAnswers, ItemThree.id) IN
          /\ Len(l) >= 2
          /\ NewAnswers(NewAnswers(l, l[1], TRUE), l[1], TRUE) # l

\* C13: recordAnswer with isMultiple = false leaves [optionText] as the answer of
\* the question, whatever it held, and every other question's answer as it was.
C13_SingleReplaces ==
    \A k \in DOMAIN sessions :
        LET ua == sessions[k].userAnswers IN
        \A j \in 1..Len(sessions[k].questions) :
            LET q == sessions[k].questions[j] IN
            \A text \in OptionTexts(q) :
                LET once == RecordAnswer(ua, q.id, text, FALSE) IN
                /\ once[q.id] = <<text>>
                /\ DOMAIN once = (DOMAIN ua) \cup {q.id}
                /\ \A other \in (DOMAIN ua) \ {q.id} : once[other] = ua[other]

\* The single-choice question has been answered and saved while the other
\* question holds a selection of two.
C13_SingleAnsweredAmongOthers ==
    /\ lastSave = "ok"
    /\ \E k \in DOMAIN sessions :
          /\ CurrentAnswers(sessions[k].userAnswers, ItemSingle.id) = <<"b">>
          /\ Len(CurrentAnswers(sessions[k].userAnswers, ItemThree.id)) = 2

\* The fields f of the session under key k are the same before and after the step
FieldsKept(k, fields) ==
    \A f \in fields : SameField(sessions'[k], sessions[k], f)

\* C14: when a generation call of a session that is in GENERATING_QUIZ returns at
\* least one question, the session goes to TAKING_QUIZ, its questions are the
\* returned sequence, userAnswers is empty, correction is null, and fileName,
\* content, quizType, numQuestions and weakTopics are what they were.
C14_GenerationSuccess ==
    [][\A i \in 1..Len(calls), reply \in GeneratorReplies :
          LET sid == calls[i].sid
              result == GenerateQuiz(reply, clock)
          IN  (/\ GenerateReturn(i, reply)
               /\ sid \in DOMAIN sessions
               /\ sessions[sid].state = GENERATING_QUIZ
               /\ result.ok
               /\ Len(result.questions) >= 1)
              => /\ sessions'[sid].state = TAKING_QUIZ
                 /\ sessions'[sid].questions = result.questions
                 /\ sessions'[sid].userAnswers = EmptyObject
                 /\ sessions'[sid].correction = Null
                 /\ FieldsKept(sid, {"fileName", "content", "quizType",
                                     "numQuestions", "weakTopics"})]_vars

\* A second quiz has been generated for a session that keeps its weak topics:
\* the session is in TAKING_QUIZ with questions, no answers and no correction.
C14_SecondQuizReady ==
    \E k \in DOMAIN sessions :
        /\ sessions[k].state = TAKING_QUIZ
        /\ sessions[k].questions # <<>>
        /\ sessions[k].userAnswers = EmptyObject
        /\ sessions[k].correction = Null
        /\ Get(sessions[k], "weakTopics") = Str("Topic X")
        /\ generations = 2
        /\ calls = <<>>

\* What a failed call must leave: the session in ERROR with a message, the call
\* gone, and the quiz data of the session as it was
FailureEffect(i) ==
    LET sid == calls[i].sid IN
    /\ sessions'[sid].state = ERROR
    /\ Get(sessions'[sid], "error") \notin {Null, Undefined}
    /\ calls' = RemoveAt(calls, i)
    /\ FieldsKept(sid, {"questions", "userAnswers", "correction", "weakTopics"})
    /\ \A o \in (DOMAIN sessions) \ {sid} : sessions'[o] = sessions[o]

\* C15: when a generation call returns no question or fails, or a grading call
\* fails, the owning session goes to ERROR with an error message, by one update
\* that ends the call, and its questions, userAnswers, correction and weakTopics
\* are left as they were.
C15_FailureKeepsQuizData ==
    [][/\ \A i \in 1..Len(calls), reply \in GeneratorReplies :
             LET result == GenerateQuiz(reply, clock) IN
             (/\ GenerateReturn(i, reply)
              /\ calls[i].sid \in DOMAIN sessions
              /\ (~result.ok \/ Len(result.questions) = 0))
             => FailureEffect(i)
       /\ \A i \in 1..Len(calls), reply \in GraderReplies :
             (/\ SubmitReturn(i, reply)
              /\ calls[i].sid \in DOMAIN sessions
              /\ ~reply.ok)
             => FailureEffect(i)]_vars

\* A grading call has failed: the session is in ERROR with the grader's message
\* and still holds its questions and its answers.
C15_GradingFailed ==
    \E k \in DOMAIN sessions :
        /\ sessions[k].state = ERROR
        /\ Get(sessions[k], "error") = Str(MsgCorrectFailed)
        /\ "questions" \in DOMAIN sessions[k]
        /\ sessions[k].questions # <<>>
        /\ DOMAIN sessions[k].userAnswers # {}
        /\ calls = <<>>

\* The step is an upload that writes a new session under key k
Uploaded(k) ==
    /\ k = SessionKey(clock)
    /\ \E text \in FileContents : HandleFileChange(text, TRUE)

\* C16: from REVIEWING_QUIZ with non-empty weakTopics, "improve weak topics"
\* takes the session to CONFIGURING_QUIZ with weakTopics unchanged and questions,
\* userAnswers and correction cleared; while the session stays in
\* CONFIGURING_QUIZ its weakTopics is kept; and a generation request passes the
\* session's weakTopics to the generator.  (An upload that writes a new session
\* under the key is the creation of another session, which is C5's matter, and
\* not a change of this one.)
C16_ImproveKeepsWeakTopics ==
    [][/\ (ImproveWeakTopics /\ Truthy(Get(activeSession, "weakTopics")))
             => /\ sessions'[activeSessionId].state = CONFIGURING_QUIZ
                /\ sessions'[activeSessionId].questions = <<>>
                /\ sessions'[activeSessionId].userAnswers = EmptyObject
                /\ sessions'[activeSessionId].correction = Null
                /\ FieldsKept(activeSessionId, {"weakTopics"})
       /\ \A k \in (DOMAIN sessions) \cap (DOMAIN sessions') :
             (/\ sessions[k].state = CONFIGURING_QUIZ
              /\ sessions'[k].state = CONFIGURING_QUIZ
              /\ ~Uploaded(k))
             => FieldsKept(k, {"weakTopics"})
       /\ HandleGenerateQuiz
             => /\ calls'[Len(calls')].sid = activeSessionId
                /\ calls'[Len(calls')].weakTopics = Get(activeSession, "weakTopics")]_vars

\* After "improve weak topics" a generation request is in flight that carries the
\* weak topics of the review, for a session whose quiz has been cleared.
C16_TargetedGenerationInFlight ==
    \E i \in 1..Len(calls) :
        /\ calls[i].kind = "generate"
        /\ calls[i].weakTopics = Str("Topic X")
        /\ calls[i].sid \in DOMAIN sessions
        /\ sessions[calls[i].sid].state = GENERATING_QUIZ
        /\ sessions[calls[i].sid].questions = <<>>
        /\ Get(sessions[calls[i].sid], "weakTopics") = Str("Topic X")

\* C17: from REVIEWING_QUIZ, the action that starts a new quiz on the same
\* document ("Nouveau Quiz") leaves the session in the store, in
\* CONFIGURING_QUIZ, with questions, userAnswers, correction, weakTopics and
\* error cleared and its id, fileName and content kept.
C17_NewQuizKeepsDocument ==
    [][\A confirmed \in BOOLEAN :
          NewQuiz(confirmed) =>
              LET k == activeSessionId IN
              /\ k \in DOMAIN sessions'
              /\ sessions'[k].state = CONFIGURING_QUIZ
              /\ sessions'[k].questions = <<>>
              /\ sessions'[k].userAnswers = EmptyObject
              /\ sessions'[k].correction = Null
              /\ ~Truthy(Get(sessions'[k], "weakTopics"))
              /\ ~Truthy(Get(sessions'[k], "error"))
              /\ FieldsKept(k, {"id", "fileName", "content"})]_vars

\* C18: every stored session has a non-null error only in the ERROR state, and
\* acknowledging the error takes the session from ERROR to CONFIGURING_QUIZ with
\* error cleared.
C18_ErrorOnlyInErrorState ==
    [][/\ \A k \in DOMAIN sessions' :
             Get(sessions'[k], "error") \notin {Null, Undefined}
                 => sessions'[k].state = ERROR
       /\ AcknowledgeError
             => /\ sessions[activeSessionId].state = ERROR
                /\ sessions'[activeSessionId].state = CONFIGURING_QUIZ
                /\ Get(sessions'[activeSessionId], "error") = Null]_vars

\* C19: for every stored session, questions or userAnswers is non-empty only in
\* TAKING_QUIZ, SUBMITTING_QUIZ, REVIEWING_QUIZ or ERROR, and correction is
\* non-null only in REVIEWING_QUIZ; a session in CONFIGURING_QUIZ or
\* GENERATING_QUIZ holds no questions, no answers and no correction.
C19_QuizDataOnlyAfterGeneration ==
    \A k \in DOMAIN sessions :
        LET s == sessions[k] IN
        /\ (\/ ("questions" \in DOMAIN s /\ s.questions # <<>>)
            \/ ("userAnswers" \in DOMAIN s /\ DOMAIN s.userAnswers # {}))
              => s.state \in {TAKING_QUIZ, SUBMITTING_QUIZ, REVIEWING_QUIZ, ERROR}
        /\ ("correction" \in DOMAIN s /\ s.correction # Null)
              => s.state = REVIEWING_QUIZ

\* C20: the quizType and numQuestions of a stored session change only in steps
\* that start with the session in CONFIGURING_QUIZ; every step taken in another
\* state, and every completion of a collaborator call, leaves both as they were.
\* (An upload that writes a new session under the key is the creation of another
\* session, which is C5's matter, and not a change of this one.)
C20_ConfigOnlyWhileConfiguring ==
    [][/\ \A k \in (DOMAIN sessions) \cap (DOMAIN sessions') :
             (~FieldsKept(k, {"quizType", "numQuestions"}) /\ ~Uploaded(k))
                 => sessions[k].state = CONFIGURING_QUIZ
       /\ ((\E i \in 1..Len(calls), reply \in GeneratorReplies :
                GenerateReturn(i, reply))
           \/ (\E i \in 1..Len(calls), reply \in GraderReplies :
                SubmitReturn(i, reply)))
             => \A k \in (DOMAIN sessions) \cap (DOMAIN sessions') :
                    FieldsKept(k, {"quizType", "numQuestions"})]_vars

\* A quiz type chosen on the configuration screen is still the session's quiz
\* type now that the quiz is being taken.
C20_EditedThenTaken ==
    \E k \in DOMAIN sessions :
        /\ sessions[k].state = TAKING_QUIZ
        /\ Get(sessions[k], "quizType") = "SINGLE"
        /\ sessions[k].questions # <<>>

\* C21: when the durable record cannot be read or parsed at startup, the load
\* ends with an empty store and the loaded flag set, leaving the record alone;
\* the load runs once per process: no step of a loaded process is a load, and
\* the store is still empty when the process starts to accept actions.
C21_CorruptLoadIsNotFatal ==
    [][/\ (Mount /\ storage.kind = "corrupt")
             => /\ sessions' = EmptyObject
                /\ isLoaded'
                /\ phase' = "loaded"
                /\ storage' = storage
       /\ isLoaded => ~Mount
       /\ (phase = "loaded" /\ storage.kind = "corrupt")
             => (sessions = EmptyObject /\ sessions' = EmptyObject)]_vars

\* The process that started on the corrupt record has gone on: a session has
\* been created and the whole store has been saved over the record.
C21_CreatedAfterCorruptLoad ==
    /\ events = 0
    /\ phase = "ready"
    /\ DOMAIN sessions # {}
    /\ lastSave = "ok"
    /\ storage = Stored(JSONStringify(sessions))

\* The edges of the session state machine
StateEdges ==
    {<<CONFIGURING_QUIZ, GENERATING_QUIZ>>, <<GENERATING_QUIZ, TAKING_QUIZ>>,
     <<GENERATING_QUIZ, ERROR>>, <<TAKING_QUIZ, SUBMITTING_QUIZ>>,
     <<SUBMITTING_QUIZ, REVIEWING_QUIZ>>, <<SUBMITTING_QUIZ, ERROR>>,
     <<REVIEWING_QUIZ, CONFIGURING_QUIZ>>, <<ERROR, CONFIGURING_QUIZ>>}

\* C22: every change of the state of a stored session follows an edge of the
\* state machine; a record that enters the store (other than by the load at
\* startup) starts in CONFIGURING_QUIZ; selecting a session and going back to the
\* list change no session.  (An upload that writes a new session under the key is
\* the creation of another session, which is C5's matter, and not a change of
\* state.)
C22_StateMachineEdges ==
    [][/\ \A k \in (DOMAIN sessions) \cap (DOMAIN sessions') :
             (sessions'[k].state # sessions[k].state /\ ~Uploaded(k))
                 => <<sessions[k].state, sessions'[k].state>> \in StateEdges
       /\ phase # "mounting"
             => \A k \in (DOMAIN sessions') \ (DOMAIN sessions) :
                    sessions'[k].state = CONFIGURING_QUIZ
       /\ (Back \/ \E k \in DOMAIN sessions : SelectSession(k))
             => sessions' = sessions]_vars

\* The completion of call i leaves the selection and every session other than
\* the one the call was issued for as they are in the state it runs in, and
\* applies its updates to that session
AppliedToOwner(i, updates) ==
    LET sid == calls[i].sid IN
    /\ activeSessionId' = activeSessionId
    /\ \A o \in (DOMAIN sessions) \ {sid} :
          o \in DOMAIN sessions' /\ sessions'[o] = sessions[o]
    /\ DOMAIN sessions' = (DOMAIN sessions) \cup {sid}
    /\ sid \in DOMAIN sessions
          => sessions'[sid] =
                Merge(Merge(sessions[sid], updates), [lastAccessed |-> clock])

\* C23: the result or the failure of a generation or grading call is applied to
\* the session the call was issued for, whether or not that session is still the
\* active one; the completion changes no field of any other session, so that
\* changes made to another session since the call was issued are kept.
C23_CompletionTargetsOwner ==
    [][/\ \A i \in 1..Len(calls), reply \in GeneratorReplies :
             GenerateReturn(i, reply)
                 => AppliedToOwner(i, GenerateUpdates(GenerateQuiz(reply, clock)))
       /\ \A i \in 1..Len(calls), reply \in GraderReplies :
             SubmitReturn(i, reply) => AppliedToOwner(i, SubmitUpdates(reply))]_vars

\* The quiz of a session has arrived while another session is the active one and
\* has its own generation call in flight.
C23_ArrivedWhileOtherActive ==
    \E k \in DOMAIN sessions, i \in 1..Len(calls) :
        /\ sessions[k].state = TAKING_QUIZ
        /\ sessions[k].questions # <<>>
        /\ activeSessionId # k
        /\ activeSessionId = calls[i].sid
        /\ activeSessionId \in DOMAIN sessions
        /\ sessions[activeSessionId].state = GENERATING_QUIZ

\* The session under key k is stored and waits for a collaborator call
Suspended(k) ==
    /\ k \in DOMAIN sessions
    /\ sessions[k].state \in {GENERATING_QUIZ, SUBMITTING_QUIZ}

\* C24: if every issued call returns or fails in the end, every session that is
\* in GENERATING_QUIZ or SUBMITTING_QUIZ leaves that state or leaves the store in
\* the end, a session that was saved in such a state and loaded again by a new
\* process included.
C24_SuspendedLeaves ==
    \A k \in Keys : Suspended(k) ~> ~Suspended(k)

\* C25: when the user declines the confirmation of a deletion, the store, the
\* durable record and the selection of the active session are unchanged, from
\* the list's delete button as well as from the "new file" and "new quiz" resets
\* of the active session.
C25_DeclinedDeleteChangesNothing ==
    [][(\/ \E k \in DOMAIN sessions : DeleteButton(k, FALSE)
        \/ ChangeFile(FALSE)
        \/ NewQuiz(FALSE))
          => UNCHANGED <<sessions, storage, activeSessionId>>]_vars

\* C26: the active session identifier is null or the key of a record of the
\* store whose id field is that key.
C26_ActiveIsStored ==
    \/ activeSessionId = Null
    \/ /\ activeSessionId \in DOMAIN sessions
       /\ Get(sessions[activeSessionId], "id") = activeSessionId

====
